---- MODULE Spec2Model ----
(***************************************************************************)
(* A model of the QQ -> Minecraft bridge of src/main.py: the message       *)
(* normaliser parse__chain, the RCON executor execute_rcon_command with    *)
(* its reconnect-and-retry loop, the two callers query_online_players and  *)
(* send_to_mc, and the event loop of main.                                 *)
(*                                                                         *)
(* Strings are sequences of symbols.  A symbol is one character, except    *)
(* that a literal of the program written in Chinese is one symbol named by *)
(* its meaning ("[image]" for the marker of an Image segment, and so on).  *)
(* Optional values (str | None) are sets with at most one element.         *)
(***************************************************************************)
EXTENDS Integers, Sequences, FiniteSets, TLC

VARIABLES
    pc,             \* position of main
    target_group,   \* main: target_group (int of the configured id)
    mc_client,      \* main: the RconClient: "absent", "closed" or "open"
    event,          \* main: the loop variable of the async for
    raw_content,    \* main: raw_content, what parse__chain returned
    clean_content,  \* main: clean_content of the event being handled
    out_msg,        \* the text main is about to pass to event.send_msg
    x_pc,           \* position of execute_rcon_command
    attempt,        \* execute_rcon_command: attempt
    max_retries,    \* execute_rcon_command: max_retries
    command,        \* execute_rcon_command: command
    result,         \* what execute_rcon_command returned (set when x_pc = "done")
    x_log,          \* history: the rcon operations of this call, with outcomes
    ev_calls,       \* history: commands given to execute_rcon_command for this event
    ev_ops,         \* history: rcon operations performed for this event
    ev_replies,     \* history: texts given to event.send_msg for this event
    boot            \* history: the connect of the start-up and the first call:
                    \* "start", then "ok" or "failed" (how the connect ended),
                    \* "first_failed" during the first call of
                    \* execute_rcon_command after a failed connect, until the
                    \* caller has its result, and "later" from the first call on

vars == <<pc, target_group, mc_client, event, raw_content, clean_content, out_msg,
          x_pc, attempt, max_retries, command, result, x_log,
          ev_calls, ev_ops, ev_replies, boot>>

mainVars == <<pc, target_group, event, raw_content, clean_content, out_msg>>
callVars == <<x_pc, attempt, max_retries, command, result, x_log>>
histVars == <<ev_calls, ev_ops, ev_replies>>

\* ---------------------------------------------------------------- bounds
MaxRetriesBound == 2
MaxEventSegs == 2
MaxSegs == 3

\* ------------------------------------------------------ program constants
DefaultMaxRetries == 1
Capacity == 40

\* ------------------------------------------------------- optional values
None == {}
Some(v) == {v}
TheValue(o) == CHOOSE v \in o : TRUE

\* ------------------------------------------------------------- strings
Whitespace == {" ", "\t", "\n"}

RECURSIVE LStrip(_)
LStrip(s) ==
    IF s # <<>> /\ Head(s) \in Whitespace THEN LStrip(Tail(s)) ELSE s

RECURSIVE RStrip(_)
RStrip(s) ==
    IF s # <<>> /\ s[Len(s)] \in Whitespace
    THEN RStrip(SubSeq(s, 1, Len(s) - 1))
    ELSE s

\* str.strip()
Strip(s) == RStrip(LStrip(s))

\* s.startswith(p)
StartsWith(s, p) == Len(s) >= Len(p) /\ SubSeq(s, 1, Len(p)) = p

\* the index of the first occurrence of sep in s at or after i; 0 if none
RECURSIVE Find(_, _, _)
Find(s, sep, i) ==
    IF i + Len(sep) - 1 > Len(s) THEN 0
    ELSE IF SubSeq(s, i, i + Len(sep) - 1) = sep THEN i
    ELSE Find(s, sep, i + 1)

\* s.split(sep), sep non-empty
RECURSIVE Split(_, _)
Split(s, sep) ==
    LET i == Find(s, sep, 1) IN
    IF i = 0 THEN <<s>>
    ELSE <<SubSeq(s, 1, i - 1)>> \o Split(SubSeq(s, i + Len(sep), Len(s)), sep)

\* sep.join(parts)
RECURSIVE Join(_, _)
Join(parts, sep) ==
    IF parts = <<>> THEN <<>>
    ELSE IF Len(parts) = 1 THEN parts[1]
    ELSE parts[1] \o sep \o Join(Tail(parts), sep)

\* "".join(parts)
RECURSIVE Concat(_)
Concat(parts) == IF parts = <<>> THEN <<>> ELSE Head(parts) \o Concat(Tail(parts))

\* ------------------------------------------------------ message segments
Text(t)  == [type |-> "Text", text |-> t, qq |-> <<>>, name |-> None]
Image    == [type |-> "Image", text |-> <<>>, qq |-> <<>>, name |-> None]
At(q, n) == [type |-> "At", text |-> <<>>, qq |-> q, name |-> n]
Face     == [type |-> "Face", text |-> <<>>, qq |-> <<>>, name |-> None]
Reply    == [type |-> "Reply", text |-> <<>>, qq |-> <<>>, name |-> None]
Forward  == [type |-> "Forward", text |-> <<>>, qq |-> <<>>, name |-> None]
UnknownMessageSegment ==
    [type |-> "Unknown", text |-> <<>>, qq |-> <<>>, name |-> None]

\* Render with a marker in the default arm of the match
Render_UnknownMarked(seg) ==
    CASE seg.type = "Text"    -> seg.text
      [] seg.type = "Image"   -> <<"[image]">>
      [] seg.type = "At"      ->
            <<"@">> \o (IF seg.name # None THEN TheValue(seg.name) ELSE seg.qq)
                    \o <<" ">>
      [] seg.type = "Face"    -> <<"[face]">>
      [] seg.type = "Reply"   -> <<"[reply]">>
      [] seg.type = "Forward" -> <<"[forward]">>
      [] OTHER                -> <<"[unknown]">>

\* one arm of the match of parse__chain: what a segment appends to text_buffer
Render(seg) ==
    CASE seg.type = "Text"    -> seg.text
      [] seg.type = "Image"   -> <<"[image]">>
      [] seg.type = "At"      ->
            <<"@">> \o (IF seg.name # None THEN TheValue(seg.name) ELSE seg.qq)
                    \o <<" ">>
      [] seg.type = "Face"    -> <<"[face]">>
      [] seg.type = "Reply"   -> <<"[reply]">>
      [] seg.type = "Forward" -> <<"[forward]">>
      [] OTHER                -> <<>>

parse__chain(chain) == Concat([i \in 1..Len(chain) |-> Render(chain[i])])

\* ------------------------------------------------------ the RCON executor
ConnectionErrors == {"ClientNotConnectedError", "RCONConnectionError", "OSError"}
Exceptions == ConnectionErrors \cup {"ValueError"}

\* except (ClientNotConnectedError, RCONConnectionError, OSError)
IsConnectionError(e) == e \in ConnectionErrors

\* except Exception, of the send and of the close/connect
IsException(e) == e \in Exceptions

\* the responses the server may give to a command
ListResponses ==
    { <<"o","n","l","i","n","e",":"," ">>,
      <<"2",":"," ","o","n","l","i","n","e",":"," ","A",","," ","B">>,
      <<"o","n","l","i","n","e",":"," ","A"," ">>,
      <<"o","n","l","i","n","e",":"," "," ">>,
      <<"n","o","p","e">>,
      <<"o","n","l","i","n","e",":"," ","o","n","l","i","n","e",":"," ","A">>,
      <<>> }

Responses(cmd) == IF cmd.verb = "list" THEN ListResponses ELSE { <<>> }

\* an entry of x_log: the operation, how it ended, and what a send returned
Op(name, outcome, res) == [op |-> name, out |-> outcome, res |-> res]

\* the outcomes of rcon.send_cmd: a client that is not connected raises
\* ClientNotConnectedError; a connected one answers or fails in any way
SendOutcomes ==
    IF mc_client = "open" THEN {"ok"} \cup Exceptions
    ELSE {"ClientNotConnectedError"}

\* return res: what the call returns when the send answered res
AfterSend(res) == Some(res)

\* AfterSendError with the budget test one attempt early
AfterSendError_StopsEarly(e, att, max) ==
    IF IsConnectionError(e)
    THEN IF att + 1 >= max THEN "done" ELSE "close"
    ELSE IF IsException(e) THEN "done" ELSE "raised"

\* AfterSendError reconnecting without closing the stale connection
AfterSendError_NoClose(e, att, max) ==
    IF IsConnectionError(e)
    THEN IF att = max THEN "done" ELSE "connect"
    ELSE IF IsException(e) THEN "done" ELSE "raised"

\* AfterSendError retrying whatever the exception
AfterSendError_RetriesAll(e, att, max) ==
    IF IsException(e)
    THEN IF att = max THEN "done" ELSE "close"
    ELSE "raised"

\* the except clauses of a failed send: what the loop does next
AfterSendError(e, att, max) ==
    IF IsConnectionError(e)
    THEN IF att = max THEN "done" ELSE "close"
    ELSE IF IsException(e) THEN "done" ELSE "raised"

\* AfterReconnectError going on to the next iteration of the for
AfterReconnectError_KeepsGoing(e) == "send"

\* AfterReconnectError catching the connection errors only
AfterReconnectError_Narrow(e) == IF IsConnectionError(e) THEN "done" ELSE "raised"

\* the try around close and connect: what follows a failed close or connect
AfterReconnectError(e) == IF IsException(e) THEN "done" ELSE "raised"

\* await rcon.close() returned: the next statement
AfterClose == "connect"

\* await rcon.connect() returned: continue, the next iteration sends again
AfterConnect == "send"

\* the history of the first call, once the caller has the result
Returned(b) == IF b = "first_failed" THEN "later" ELSE b

\* the call itself: the frame of execute_rcon_command(rcon, cmd, max)
Call(cmd, max) ==
    /\ x_pc' = "send"
    /\ attempt' = 0
    /\ max_retries' = max
    /\ command' = cmd
    /\ result' = None
    /\ x_log' = <<>>
    /\ boot' = IF boot = "failed" THEN "first_failed" ELSE "later"

\* res, _ = await rcon.send_cmd(command)
ExecSend ==
    /\ x_pc = "send"
    /\ \E o \in SendOutcomes :
         /\ ev_ops' = Append(ev_ops, "send")
         /\ IF o = "ok"
            THEN \E r \in Responses(command) :
                    /\ x_log' = Append(x_log, Op("send", o, Some(r)))
                    /\ result' = AfterSend(r)
                    /\ x_pc' = "done"
            ELSE /\ x_log' = Append(x_log, Op("send", o, None))
                 /\ result' = None
                 /\ x_pc' = AfterSendError(o, attempt, max_retries)
    /\ UNCHANGED <<attempt, max_retries, command, mc_client>>
    /\ UNCHANGED <<mainVars, ev_calls, ev_replies, boot>>

\* await rcon.close()
ExecClose ==
    /\ x_pc = "close"
    /\ \E o \in {"ok"} \cup Exceptions :
         /\ x_log' = Append(x_log, Op("close", o, None))
         /\ ev_ops' = Append(ev_ops, "close")
         /\ IF o = "ok"
            THEN /\ mc_client' = "closed"
                 /\ x_pc' = AfterClose
            ELSE /\ mc_client' \in {mc_client, "closed"}
                 /\ x_pc' = AfterReconnectError(o)
    /\ UNCHANGED <<attempt, max_retries, command, result>>
    /\ UNCHANGED <<mainVars, ev_calls, ev_replies, boot>>

\* await rcon.connect(), then continue
ExecConnect ==
    /\ x_pc = "connect"
    /\ \E o \in {"ok"} \cup Exceptions :
         /\ x_log' = Append(x_log, Op("connect", o, None))
         /\ ev_ops' = Append(ev_ops, "connect")
         /\ IF o = "ok"
            THEN /\ mc_client' = "open"
                 /\ x_pc' = AfterConnect
                 /\ attempt' = attempt + 1
            ELSE /\ mc_client' = mc_client
                 /\ x_pc' = AfterReconnectError(o)
                 /\ attempt' = attempt
    /\ UNCHANGED <<max_retries, command, result>>
    /\ UNCHANGED <<mainVars, ev_calls, ev_replies, boot>>

\* ---------------------------------------------------------- the commands
ListCommand == [verb |-> "list", nickname |-> <<>>, content |-> <<>>]

\* json.dumps of a string: the quotes around it, and the escapes inside
RECURSIVE JsonEscape(_)
JsonEscape(s) ==
    IF s = <<>> THEN <<>>
    ELSE (CASE Head(s) = "\"" -> <<"\\", "\"">>
            [] Head(s) = "\\" -> <<"\\", "\\">>
            [] Head(s) = "\n" -> <<"\\", "n">>
            [] Head(s) = "\t" -> <<"\\", "t">>
            [] OTHER          -> <<Head(s)>>) \o JsonEscape(Tail(s))

JsonString(s) == <<"\"">> \o JsonEscape(s) \o <<"\"">>

\* send_to_mc: the tellraw command of (nickname, content); the three runs
\* are [QQ] in bold gold, the nickname and a colon in aqua, the content in white
TellrawCommand(nickname, content) ==
    [verb |-> "tellraw",
     nickname |-> JsonString(nickname \o <<":", " ">>),
     content |-> JsonString(content)]

\* ------------------------------------------------------------ the events
NoEvent ==
    [kind |-> "none", group_id |-> <<>>, card |-> <<>>, nickname |-> <<>>,
     message |-> <<>>]

GroupMessageEvent(gid, card, nickname, message) ==
    [kind |-> "group_message", group_id |-> gid, card |-> card,
     nickname |-> nickname, message |-> message]

\* an event of another kind (a notice, a private message, a heartbeat)
OtherEvent ==
    [kind |-> "other", group_id |-> <<>>, card |-> <<>>, nickname |-> <<>>,
     message |-> <<>>]

Digits == {"0", "1", "2", "3", "4", "5", "6", "7", "8", "9"}

DigitValue(c) ==
    CASE c = "0" -> 0 [] c = "1" -> 1 [] c = "2" -> 2 [] c = "3" -> 3
      [] c = "4" -> 4 [] c = "5" -> 5 [] c = "6" -> 6 [] c = "7" -> 7
      [] c = "8" -> 8 [] c = "9" -> 9

\* int(gid) raises ValueError unless gid is a decimal numeral
IsNumeral(s) == s # <<>> /\ \A i \in 1..Len(s) : s[i] \in Digits

\* int(gid) of a decimal numeral
RECURSIVE ParseInt(_)
ParseInt(s) ==
    IF s = <<>> THEN 0
    ELSE 10 * ParseInt(SubSeq(s, 1, Len(s) - 1)) + DigitValue(s[Len(s)])

\* the texts of the Text segments of the events
EventTexts ==
    { <<" ">>, <<".">>, <<"m","c">>, <<"h","i">>, <<".","m","c">>,
      <<".","p","i","n","g">>, <<".","v","e","r","s","i","o","n">>,
      <<".","l","i","s","t">>, <<".","c","x">>, <<".","x">> }

EventSegments ==
    {Text(t) : t \in EventTexts}
        \cup {Image, At(<<"4","2">>, Some(<<"B","o","b">>)), UnknownMessageSegment}

RECURSIVE SeqsUpTo(_, _)
SeqsUpTo(S, n) ==
    IF n = 0 THEN { <<>> }
    ELSE LET shorter == SeqsUpTo(S, n - 1) IN
         shorter \cup {Append(q, x) : q \in {r \in shorter : Len(r) = n - 1}, x \in S}

EventMessages == SeqsUpTo(EventSegments, MaxEventSegs)

Cards == { <<>>, <<"C">> }
Nicknames == { <<>>, <<"N">> }

\* the events the stream may yield: the messages of the target group from
\* every sender, messages of other group ids, and an event of another kind
Events ==
    {GroupMessageEvent(<<"7">>, c, n, m) : c \in Cards, n \in Nicknames, m \in EventMessages}
        \cup {GroupMessageEvent(g, <<"C">>, <<"N">>, m) :
                 g \in { <<"0","7">>, <<"8">>, <<"x">> },
                 m \in { <<Text(<<"h","i">>)>>, <<Text(<<".","m","c">>)>> }}
        \cup {OtherEvent}

ConfiguredGroupIds == {0, 7}

\* ------------------------------------------------------ the replies
ReplyText(text, args) == [text |-> text, args |-> args]

NoPlayerListReply == ReplyText("cannot get the list of online players, check the RCON connection", <<>>)
NobodyOnlineReply == ReplyText("no player is online", <<>>)
OnlineReply(players) ==
    ReplyText("players online (%d / %d): %s",
              <<Len(players), Capacity, Join(players, <<",", " ">>)>>)
PongReply == ReplyText("Pong! the bot is online", <<>>)
VersionReply == ReplyText("NapCat SDK version: %s", <<"__version__">>)

\* ------------------------------------------------ query_online_players
\* Players without the strip of each name
Players_NoTrim(response) ==
    IF response = None THEN None
    ELSE LET part == Split(TheValue(response), <<"o","n","l","i","n","e",":"," ">>) IN
         IF Len(part) # 2 THEN None
         ELSE LET players_str == Strip(part[2])
              IN Some(IF players_str # <<>> THEN Split(players_str, <<",">>) ELSE <<>>)

\* Players taking what follows the first marker when there are several
Players_FirstMarker(response) ==
    IF response = None THEN None
    ELSE LET part == Split(TheValue(response), <<"o","n","l","i","n","e",":"," ">>) IN
         IF Len(part) < 2 THEN None
         ELSE LET players_str == Strip(part[2])
                  names == Split(players_str, <<",">>)
              IN Some(IF players_str # <<>>
                      THEN [i \in 1..Len(names) |-> Strip(names[i])]
                      ELSE <<>>)

\* from the value execute_rcon_command returned to list[str] | None
Players(response) ==
    IF response = None THEN None
    ELSE LET part == Split(TheValue(response), <<"o","n","l","i","n","e",":"," ">>) IN
         IF Len(part) # 2 THEN None
         ELSE LET players_str == Strip(part[2])
                  names == Split(players_str, <<",">>)
              IN Some(IF players_str # <<>>
                      THEN [i \in 1..Len(names) |-> Strip(names[i])]
                      ELSE <<>>)

\* PlayersReply taking None for an empty list
PlayersReply_NoneAsEmpty(players) ==
    IF players = None \/ TheValue(players) = <<>> THEN NobodyOnlineReply
    ELSE OnlineReply(TheValue(players))

\* the three branches on players of the case ".mc"
PlayersReply(players) ==
    IF players = None THEN NoPlayerListReply
    ELSE IF TheValue(players) = <<>> THEN NobodyOnlineReply
    ELSE OnlineReply(TheValue(players))

\* ------------------------------------------------------------------ main
\* case GroupMessageEvent(group_id=gid, ...): the class pattern
IsGroupMessage(e) == e.kind = "group_message"

\* GroupMatches with the guard dropped: every group is the target group
GroupMatches_Any(e) == TRUE

\* if int(gid) == target_group: the guard, for a gid that int accepts
GroupMatches(e) == ParseInt(e.group_id) = target_group

\* ShouldForward keeping the texts that start with a dot out of the game
ShouldForward_SkipsCommands(clean) == clean # <<>> /\ ~StartsWith(clean, <<".">>)

\* if clean_content:
ShouldForward(clean) == clean # <<>>

\* DisplayName with the nickname before the card
DisplayName_NicknameFirst(e) ==
    IF e.nickname # <<>> THEN e.nickname
    ELSE IF e.card # <<>> THEN e.card
    ELSE <<"unknown-user">>

\* sender.card or sender.nickname or the placeholder
DisplayName(e) ==
    IF e.card # <<>> THEN e.card
    ELSE IF e.nickname # <<>> THEN e.nickname
    ELSE <<"unknown-user">>

\* Classify without the arm of .ping
Classify_NoPing(clean) ==
    CASE clean = <<".","m","c">>                     -> "mc"
      [] clean = <<".","v","e","r","s","i","o","n">> -> "version"
      [] OTHER                                       -> "pass"

\* Classify with .list and .cx as other names of .mc
Classify_WithAliases(clean) ==
    CASE clean \in { <<".","m","c">>, <<".","l","i","s","t">>, <<".","c","x">> } -> "mc"
      [] clean = <<".","p","i","n","g">>             -> "ping"
      [] clean = <<".","v","e","r","s","i","o","n">> -> "version"
      [] OTHER                                       -> "pass"

\* match clean_content: the arm taken
Classify(clean) ==
    CASE clean = <<".","m","c">>                     -> "mc"
      [] clean = <<".","p","i","n","g">>             -> "ping"
      [] clean = <<".","v","e","r","s","i","o","n">> -> "version"
      [] OTHER                                       -> "pass"

IdleCall ==
    /\ x_pc' = "idle"
    /\ attempt' = 0
    /\ max_retries' = DefaultMaxRetries
    /\ command' = ListCommand
    /\ result' = None
    /\ x_log' = <<>>

\* the locals of a finished iteration are dead: the next one starts afresh
ClearLocals ==
    /\ event' = NoEvent
    /\ raw_content' = <<>>
    /\ clean_content' = <<>>
    /\ out_msg' = None
    /\ IdleCall
    /\ ev_calls' = <<>>
    /\ ev_ops' = <<>>
    /\ ev_replies' = <<>>
    /\ boot' = Returned(boot)

Init ==
    /\ pc = "start"
    /\ target_group \in ConfiguredGroupIds
    /\ mc_client = "absent"
    /\ event = NoEvent
    /\ raw_content = <<>>
    /\ clean_content = <<>>
    /\ out_msg = None
    /\ boot = "start"
    /\ x_pc = "idle"
    /\ attempt = 0
    /\ max_retries = DefaultMaxRetries
    /\ command = ListCommand
    /\ result = None
    /\ x_log = <<>>
    /\ ev_calls = <<>>
    /\ ev_ops = <<>>
    /\ ev_replies = <<>>

\* ConfigMissing never seeing a missing id
ConfigMissing_Never(tg) == FALSE

\* if target_group == 0:
ConfigMissing(tg) == tg = 0

\* main up to the while: the configuration test, the client, the first connect
Startup ==
    /\ pc = "start"
    /\ IF ConfigMissing(target_group)
       THEN /\ pc' = "exited"
            /\ mc_client' = mc_client
            /\ boot' = boot
       ELSE /\ pc' = "subscribe"
            /\ \E o \in {"ok"} \cup Exceptions :
                  /\ mc_client' = IF o = "ok" THEN "open" ELSE "closed"
                  /\ boot' = IF o = "ok" THEN "ok" ELSE "failed"
    /\ UNCHANGED <<target_group, event, raw_content, clean_content, out_msg,
                   callVars, histVars>>

\* async for event in NapCatClient(...): the stream opens, or raises
Subscribe ==
    /\ pc = "subscribe"
    /\ \E opened \in BOOLEAN : pc' = IF opened THEN "next_event" ELSE "sleep"
    /\ UNCHANGED <<target_group, mc_client, event, raw_content, clean_content,
                   out_msg, callVars, histVars, boot>>

\* the match of clean_content, with calls the commands executed so far
Dispatch(clean, calls) ==
    CASE Classify(clean) = "mc" ->
            /\ pc' = "query"
            /\ Call(ListCommand, DefaultMaxRetries)
            /\ ev_calls' = Append(calls, ListCommand)
            /\ out_msg' = None
      [] Classify(clean) = "ping" ->
            /\ pc' = "reply"
            /\ out_msg' = Some(PongReply)
            /\ ev_calls' = calls
            /\ boot' = Returned(boot)
            /\ UNCHANGED callVars
      [] Classify(clean) = "version" ->
            /\ pc' = "reply"
            /\ out_msg' = Some(VersionReply)
            /\ ev_calls' = calls
            /\ boot' = Returned(boot)
            /\ UNCHANGED callVars
      [] OTHER ->
            /\ pc' = "handled"
            /\ out_msg' = None
            /\ ev_calls' = calls
            /\ boot' = Returned(boot)
            /\ UNCHANGED callVars

\* AwaitingEvent with the body of the loop run as a task of its own, so that
\* the stream is read while an execute of the event before is under way
AwaitingEvent_Concurrent == pc \in {"next_event", "forward", "query"}

\* main is at the async for, waiting for the stream: the body of the loop
\* has run to its end for the event before
AwaitingEvent == pc = "next_event"

\* the stream yields an event: the outer match, parse__chain, strip, and
\* the call of send_to_mc or, for an empty text, the inner match
NextEvent ==
    /\ AwaitingEvent
    /\ \E e \in Events :
         /\ event' = e
         /\ ev_ops' = <<>>
         /\ ev_replies' = <<>>
         /\ IF ~IsGroupMessage(e)
            THEN /\ pc' = "handled"
                 /\ UNCHANGED <<raw_content, clean_content, out_msg, callVars,
                                ev_calls, boot>>
            ELSE IF ~IsNumeral(e.group_id)
            THEN /\ pc' = "sleep"
                 /\ UNCHANGED <<raw_content, clean_content, out_msg, callVars,
                                ev_calls, boot>>
            ELSE IF ~GroupMatches(e)
            THEN /\ pc' = "handled"
                 /\ UNCHANGED <<raw_content, clean_content, out_msg, callVars,
                                ev_calls, boot>>
            ELSE LET clean == Strip(parse__chain(e.message)) IN
                 /\ raw_content' = parse__chain(e.message)
                 /\ clean_content' = clean
                 /\ IF ShouldForward(clean)
                    THEN /\ pc' = "forward"
                         /\ Call(TellrawCommand(DisplayName(e), clean), DefaultMaxRetries)
                         /\ ev_calls' = <<TellrawCommand(DisplayName(e), clean)>>
                         /\ out_msg' = None
                    ELSE Dispatch(clean, <<>>)
    /\ UNCHANGED <<target_group, mc_client>>

\* the stream raises (the connection dropped)
StreamError ==
    /\ AwaitingEvent
    /\ pc' = "sleep"
    /\ UNCHANGED <<target_group, mc_client, event, raw_content, clean_content,
                   out_msg, callVars, histVars, boot>>

\* the stream ends without an error: the while opens a new one at once
StreamEnd ==
    /\ AwaitingEvent
    /\ pc' = "subscribe"
    /\ UNCHANGED <<target_group, mc_client, event, raw_content, clean_content,
                   out_msg, callVars, histVars, boot>>

\* send_to_mc returned (its result is dropped): the match of clean_content
ForwardReturn ==
    /\ pc = "forward"
    /\ x_pc \in {"done", "raised"}
    /\ IF x_pc = "done"
       THEN Dispatch(clean_content, ev_calls)
       ELSE /\ pc' = "sleep"
            /\ boot' = Returned(boot)
            /\ UNCHANGED <<out_msg, callVars, ev_calls>>
    /\ UNCHANGED <<target_group, mc_client, event, raw_content, clean_content,
                   ev_ops, ev_replies>>

\* query_online_players returned: the reply chosen from players
QueryReturn ==
    /\ pc = "query"
    /\ x_pc \in {"done", "raised"}
    /\ IF x_pc = "done"
       THEN /\ pc' = "reply"
            /\ out_msg' = Some(PlayersReply(Players(result)))
       ELSE /\ pc' = "sleep"
            /\ out_msg' = out_msg
    /\ boot' = Returned(boot)
    /\ UNCHANGED <<target_group, mc_client, event, raw_content, clean_content,
                   callVars, histVars>>

\* await event.send_msg(...): it returns, or raises into the except of main
SendMsg ==
    /\ pc = "reply"
    /\ ev_replies' = Append(ev_replies, TheValue(out_msg))
    /\ \E sent \in BOOLEAN : pc' = IF sent THEN "handled" ELSE "sleep"
    /\ UNCHANGED <<target_group, mc_client, event, raw_content, clean_content,
                   out_msg, callVars, ev_calls, ev_ops, boot>>

\* the body of the async for is over: back to the stream
Continue ==
    /\ pc = "handled"
    /\ pc' = "next_event"
    /\ ClearLocals
    /\ UNCHANGED <<target_group, mc_client>>

\* Sleep leaving the while after the delay
Sleep_GivesUp ==
    /\ pc = "sleep"
    /\ pc' = "exited"
    /\ ClearLocals
    /\ UNCHANGED <<target_group, mc_client>>

\* Sleep closing the console connection before it opens the next stream
Sleep_ClosesConsole ==
    /\ pc = "sleep"
    /\ pc' = "subscribe"
    /\ ClearLocals
    /\ mc_client' = "closed"
    /\ UNCHANGED target_group

\* except Exception: await asyncio.sleep(5), then the while again
Sleep ==
    /\ pc = "sleep"
    /\ pc' = "subscribe"
    /\ ClearLocals
    /\ UNCHANGED <<target_group, mc_client>>

Next ==
    \/ Startup
    \/ Subscribe
    \/ NextEvent
    \/ StreamError
    \/ StreamEnd
    \/ ExecSend
    \/ ExecClose
    \/ ExecConnect
    \/ ForwardReturn
    \/ QueryReturn
    \/ SendMsg
    \/ Continue
    \/ Sleep

Spec == Init /\ [][Next]_vars

\* the event loop runs what is ready: the sleep of five seconds ends, and
\* the while then opens the stream again
SpecLive == Spec /\ WF_vars(Sleep) /\ WF_vars(Subscribe)

\* -------------------------------------------- the executor on its own
InitExec ==
    /\ pc = "in_call"
    /\ target_group = 7
    /\ mc_client \in {"closed", "open"}
    /\ event = NoEvent
    /\ raw_content = <<>>
    /\ clean_content = <<>>
    /\ out_msg = None
    /\ boot = "later"
    /\ x_pc = "send"
    /\ attempt = 0
    /\ max_retries \in 0..MaxRetriesBound
    /\ command \in {ListCommand, TellrawCommand(<<"N">>, <<"h", "i">>)}
    /\ result = None
    /\ x_log = <<>>
    /\ ev_calls = <<command>>
    /\ ev_ops = <<>>
    /\ ev_replies = <<>>

NextExec == ExecSend \/ ExecClose \/ ExecConnect

SpecExec == InitExec /\ [][NextExec]_vars

\* ------------------------------------------- parse__chain on its own
\* the segments of the chains: texts (the empty one too), the five markers,
\* a mention with a name and one without, and a segment of no known type
Segments ==
    {Text(t) : t \in { <<>>, <<"a">>, <<"b">> }}
        \cup {Image, Face, Reply, Forward, UnknownMessageSegment,
              At(<<"1">>, None), At(<<"1">>, Some(<<"B","o","b">>))}

Chains == SeqsUpTo(Segments, MaxSegs)

InitNormalize ==
    /\ pc = "normalize"
    /\ target_group = 7
    /\ mc_client = "open"
    /\ event \in {GroupMessageEvent(<<"7">>, <<"C">>, <<"N">>, m) : m \in Chains}
    /\ raw_content = <<>>
    /\ clean_content = <<>>
    /\ out_msg = None
    /\ boot = "later"
    /\ x_pc = "idle"
    /\ attempt = 0
    /\ max_retries = DefaultMaxRetries
    /\ command = ListCommand
    /\ result = None
    /\ x_log = <<>>
    /\ ev_calls = <<>>
    /\ ev_ops = <<>>
    /\ ev_replies = <<>>

\* raw_content = parse__chain(message)
Normalize ==
    /\ pc = "normalize"
    /\ raw_content' = parse__chain(event.message)
    /\ pc' = "normalized"
    /\ UNCHANGED <<target_group, mc_client, event, clean_content, out_msg,
                   callVars, histVars, boot>>

NextNormalize == Normalize

SpecNormalize == InitNormalize /\ [][NextNormalize]_vars

\* ------------------------------------------------ claims on the executor
Indices(opname) == {i \in 1..Len(x_log) : x_log[i].op = opname}
NumOps(opname) == Cardinality(Indices(opname))
OpNames == [i \in 1..Len(x_log) |-> x_log[i].op]

\* every send of the call failed with a connection error
EverySendLostConnection ==
    \A i \in Indices("send") : x_log[i].out \in ConnectionErrors

\* no close and no connect of the call failed
EveryReconnectWorked ==
    \A i \in Indices("close") \cup Indices("connect") : x_log[i].out = "ok"

\* C1 as stated (on the calls whose every close succeeded): when every send
\* fails with a connection error, then whatever the reconnects do, the call
\* returns None after exactly max_retries + 1 sends and at most max_retries
\* connects.
C1_ExactlyMaxRetriesPlusOneSends ==
    (/\ x_pc = "done"
     /\ EverySendLostConnection
     /\ \A i \in Indices("close") : x_log[i].out = "ok")
    => /\ result = None
       /\ NumOps("send") = max_retries + 1
       /\ NumOps("connect") <= max_retries

\* C1 amended: when every send fails with a connection error, the call returns
\* None after one send more than there were successful connects, so after at
\* most max_retries + 1 sends and at most max_retries connects, and after
\* exactly max_retries + 1 sends when no close and no connect failed.
C1_SendsBoundedByBudget ==
    (x_pc = "done" /\ EverySendLostConnection)
    => /\ result = None
       /\ NumOps("send") =
            1 + Cardinality({i \in Indices("connect") : x_log[i].out = "ok"})
       /\ NumOps("send") <= max_retries + 1
       /\ NumOps("connect") <= max_retries
       /\ (EveryReconnectWorked => NumOps("send") = max_retries + 1)

C1_Witness ==
    /\ x_pc = "done"
    /\ EverySendLostConnection
    /\ max_retries >= 2
    /\ NumOps("send") = max_retries + 1
    /\ NumOps("connect") = max_retries

\* C2: with max_retries = 1, when the first send fails with a connection
\* error, the close and the connect succeed and a send succeeds, the call
\* returns the response of the second send, and its operations are exactly
\* send, close, connect, send.
C2_ReconnectThenRetryOnce ==
    (/\ x_pc = "done"
     /\ max_retries = 1
     /\ x_log # <<>>
     /\ x_log[1].out \in ConnectionErrors
     /\ EveryReconnectWorked
     /\ \E i \in Indices("send") : x_log[i].out = "ok")
    => /\ OpNames = <<"send", "close", "connect", "send">>
       /\ x_log[4].out = "ok"
       /\ result # None
       /\ result = x_log[4].res

C2_Witness ==
    /\ x_pc = "done"
    /\ max_retries = 1
    /\ command.verb = "list"
    /\ Len(x_log) = 4
    /\ x_log[1].out = "RCONConnectionError"
    /\ x_log[4].out = "ok"
    /\ result = Some(<<"o","n","l","i","n","e",":"," ","A"," ">>)

\* C3: a send that fails with an exception that is not a connection error
\* ends the call at once with None: it is the last operation of the call, and
\* it is followed by no close and no connect.
C3_OtherErrorNotRetried ==
    \A i \in Indices("send") :
        (x_log[i].out # "ok" /\ x_log[i].out \notin ConnectionErrors)
        => /\ i = Len(x_log)
           /\ x_pc = "done"
           /\ result = None

C3_Witness ==
    /\ max_retries = 2
    /\ attempt = 0
    /\ x_log = <<Op("send", "ValueError", None)>>
    /\ x_pc = "done"

\* C4: a close that fails is ignored: the connect is attempted all the same.
C4_CloseIsBestEffort ==
    \A i \in Indices("close") :
        x_log[i].out # "ok"
        => IF i < Len(x_log) THEN x_log[i + 1].op = "connect"
                             ELSE x_pc = "connect"

\* C5: the call raises nothing and ends: it performs at most
\* 3 * max_retries + 1 operations, can take a step until it has returned, and
\* returns the response of its last send, or None.
C5_AlwaysReturnsAValue ==
    /\ x_pc \in {"send", "close", "connect", "done"}
    /\ Len(x_log) <= 3 * max_retries + 1
    /\ x_pc # "done" => ENABLED (ExecSend \/ ExecClose \/ ExecConnect)
    /\ x_pc = "done" =>
          \/ result = None /\ x_log[Len(x_log)].out # "ok"
          \/ /\ x_log[Len(x_log)] \in
                  {Op("send", "ok", Some(r)) : r \in Responses(command)}
             /\ result = x_log[Len(x_log)].res

C5_Witness ==
    /\ x_pc = "done"
    /\ max_retries = 2
    /\ Len(x_log) = 6
    /\ x_log[5].op = "close"
    /\ x_log[6] = Op("connect", "ValueError", None)
    /\ result = None

\* ---------------------------------------------------- claims on main
\* the event in hand is a message of the target group
TargetGroupMessage ==
    /\ event.kind = "group_message"
    /\ IsNumeral(event.group_id)
    /\ ParseInt(event.group_id) = target_group

\* the name the forward must carry: card, else nickname, else the placeholder
ResolvedName ==
    IF Len(event.card) > 0 THEN event.card
    ELSE IF Len(event.nickname) > 0 THEN event.nickname
    ELSE <<"unknown-user">>

TextPing == <<".","p","i","n","g">>
TextMc == <<".","m","c">>
TextList == <<".","l","i","s","t">>
TextCx == <<".","c","x">>

\* C6 as stated: handling a message of the target group whose trimmed text
\* is .ping sends the Pong reply and performs no operation on the console.
C6_PingWithoutConsole ==
    (pc = "handled" /\ TargetGroupMessage /\ clean_content = TextPing)
    => /\ ev_replies = <<PongReply>>
       /\ ev_calls = <<>>
       /\ ev_ops = <<>>

\* C6 amended: handling a message of the target group whose trimmed text is
\* .ping first forwards the text to the game as one tellraw execute, then gives
\* the Pong reply, and nothing else, to the event's send_msg; no list command
\* is issued and every console operation is one of that forward.
C6_PingForwardedThenPong ==
    (TargetGroupMessage /\ clean_content = TextPing)
    => /\ ev_calls = <<TellrawCommand(ResolvedName, TextPing)>>
       /\ command = ev_calls[1]
       /\ ev_ops = OpNames
       /\ pc \in {"forward", "reply", "handled", "sleep"}
       /\ pc = "reply" => out_msg = Some(PongReply) /\ ev_replies = <<>>
       /\ pc = "handled" => ev_replies = <<PongReply>>
       /\ pc = "forward" => ev_replies = <<>>

C6_Witness ==
    /\ pc = "handled"
    /\ TargetGroupMessage
    /\ event.message = <<Text(<<" ">>), Text(TextPing)>>
    /\ clean_content = TextPing
    /\ ev_replies = <<PongReply>>
    /\ ev_ops = <<"send">>

\* C7 as stated: a message of the target group whose trimmed text starts with
\* a dot and is no command causes no console command and no reply.
C7_UnknownCommandIgnored ==
    (/\ TargetGroupMessage
     /\ StartsWith(clean_content, <<".">>)
     /\ clean_content \notin {TextMc, TextPing, <<".","v","e","r","s","i","o","n">>})
    => /\ ev_calls = <<>>
       /\ ev_ops = <<>>
       /\ ev_replies = <<>>

\* C7 amended: a message of the target group whose trimmed text starts with a
\* dot and is none of .mc, .ping, .version gets no reply and causes no list
\* command, and is forwarded to the game as one tellraw execute like any other
\* non-empty text.
C7_UnknownCommandForwardedOnly ==
    (/\ TargetGroupMessage
     /\ StartsWith(clean_content, <<".">>)
     /\ clean_content \notin {TextMc, TextPing, <<".","v","e","r","s","i","o","n">>})
    => /\ ev_calls = <<TellrawCommand(ResolvedName, clean_content)>>
       /\ command = ev_calls[1]
       /\ ev_ops = OpNames
       /\ ev_replies = <<>>
       /\ out_msg = None
       /\ pc \in {"forward", "handled"}

C7_Witness ==
    /\ pc = "handled"
    /\ TargetGroupMessage
    /\ clean_content = <<".","x">>
    /\ ev_ops = <<"send", "close", "connect", "send">>
    /\ ev_replies = <<>>

\* C8 as stated: each of .list, .cx and .mc is the query-players command:
\* handling it executes list and gives one reply.
C8_ThreeNamesOfQuery ==
    (/\ pc = "handled"
     /\ TargetGroupMessage
     /\ clean_content \in {TextList, TextCx, TextMc})
    => /\ ListCommand \in {ev_calls[i] : i \in 1..Len(ev_calls)}
       /\ Len(ev_replies) = 1

\* C8 amended: .mc alone is the query-players command: handling it executes
\* list (after the forward of the text) and gives send_msg one reply, which is
\* the trouble reply when the execute returned None and one of the three
\* replies otherwise; .list and .cx are no commands: they cause no list command
\* and no reply.
C8_OnlyMcIsQuery ==
    TargetGroupMessage =>
        /\ (clean_content = TextMc /\ pc \in {"handled", "sleep"} /\ x_pc = "done")
           => /\ ev_calls = <<TellrawCommand(ResolvedName, TextMc), ListCommand>>
              /\ command = ListCommand
              /\ Len(ev_replies) = 1
              /\ result = None => ev_replies[1] = NoPlayerListReply
              /\ \/ ev_replies[1] \in {NoPlayerListReply, NobodyOnlineReply}
                 \/ /\ ev_replies[1].text = "players online (%d / %d): %s"
                    /\ ev_replies[1].args[1] >= 1
                    /\ result # None
        /\ (clean_content = TextMc /\ pc = "handled") => x_pc = "done"
        /\ clean_content \in {TextList, TextCx}
           => /\ ev_calls = <<TellrawCommand(ResolvedName, clean_content)>>
              /\ ev_replies = <<>>
              /\ pc \in {"forward", "handled"}

C8_Witness ==
    /\ pc = "handled"
    /\ TargetGroupMessage
    /\ clean_content = TextMc
    /\ ev_calls = <<TellrawCommand(<<"C">>, TextMc), ListCommand>>
    /\ result = Some(<<"2",":"," ","o","n","l","i","n","e",":"," ","A",","," ","B">>)
    /\ ev_replies = <<ReplyText("players online (%d / %d): %s",
                                <<2, 40, <<"A", ",", " ", "B">> >>)>>

\* C9: for a message of the target group, a trimmed text that is not empty
\* and does not start with a dot is forwarded by exactly one tellraw execute
\* carrying the text and the sender's card, else nickname, else the
\* placeholder; a text that is empty after the trim causes no execute and no
\* console operation.
C9_ForwardIffNotEmpty ==
    TargetGroupMessage =>
        /\ (clean_content # <<>> /\ ~StartsWith(clean_content, <<".">>))
           => /\ ev_calls =
                    <<[verb |-> "tellraw",
                       nickname |-> JsonString(ResolvedName \o <<":", " ">>),
                       content |-> JsonString(clean_content)]>>
              /\ command = ev_calls[1]
              /\ ev_ops = OpNames
              /\ pc \in {"forward", "handled"}
              /\ pc = "handled" => x_pc = "done" /\ Len(ev_ops) >= 1
        /\ (\A i \in 1..Len(event.message) :
               \/ event.message[i].type = "Unknown"
               \/ /\ event.message[i].type = "Text"
                  /\ \A j \in 1..Len(event.message[i].text) :
                        event.message[i].text[j] \in Whitespace)
           => /\ clean_content = <<>>
              /\ ev_calls = <<>>
              /\ ev_ops = <<>>
              /\ pc = "handled"

C9_Witness ==
    /\ pc = "handled"
    /\ TargetGroupMessage
    /\ event.card = <<>>
    /\ event.nickname = <<"N">>
    /\ event.message = <<Text(<<"h","i">>), Text(<<" ">>)>>
    /\ ev_calls = <<TellrawCommand(<<"N">>, <<"h","i">>)>>
    /\ ev_ops = <<"send">>

\* the state of the bridge loop at a position of main
BridgeState(p) ==
    IF p \in {"next_event", "forward", "query", "reply", "handled"}
    THEN "Connected" ELSE "Disconnected"

\* what reading an ignored event may change: the loop variable alone
IgnoredWithoutEffect ==
    /\ BridgeState(pc') = "Connected"
    /\ pc' = "handled"
    /\ mc_client' = mc_client
    /\ ev_calls' = <<>> /\ ev_ops' = <<>> /\ ev_replies' = <<>>
    /\ UNCHANGED <<target_group, raw_content, clean_content, out_msg, callVars>>

TextVersion == <<".","v","e","r","s","i","o","n">>

\* C11: when the list execute of .mc returns None, the trouble reply is what
\* send_msg is given; when the forward execute returns None, no reply is given
\* for it and the handling goes on as after a forward that worked: to the list
\* execute for .mc, to the reply of .ping and .version, to the end otherwise.
C11_FailureAsymmetry ==
    /\ [](/\ (pc = "reply" /\ x_pc = "done" /\ command = ListCommand /\ result = None)
             => out_msg = Some(NoPlayerListReply) /\ ev_replies = <<>>
          /\ (pc \in {"handled", "sleep"} /\ x_pc = "done"
                /\ command = ListCommand /\ result = None)
             => ev_replies = <<NoPlayerListReply>>)
    /\ [][(pc = "forward" /\ x_pc = "done" /\ result = None)
          => /\ ev_replies' = ev_replies
             /\ ev_ops' = ev_ops
             /\ mc_client' = mc_client
             /\ pc' = CASE clean_content = TextMc -> "query"
                        [] clean_content \in {TextPing, TextVersion} -> "reply"
                        [] OTHER -> "handled"
             /\ pc' = "reply" =>
                   out_msg' = IF clean_content = TextPing THEN Some(PongReply)
                                                          ELSE Some(VersionReply)]_vars

C11_Witness ==
    /\ pc = "handled"
    /\ TargetGroupMessage
    /\ clean_content = TextMc
    /\ ev_ops = <<"send", "close", "send">>
    /\ x_pc = "done"
    /\ result = None
    /\ ev_replies = <<NoPlayerListReply>>

\* the list execute of .mc has returned and send_msg was given the reply
QueryAnswered ==
    /\ pc \in {"handled", "sleep"}
    /\ TargetGroupMessage
    /\ clean_content = TextMc
    /\ x_pc = "done"
    /\ command = ListCommand
    /\ Len(ev_replies) >= 1

Marker == <<"o","n","l","i","n","e",":"," ">>

\* the number of places of s at which the marker starts
MarkerCount(s) ==
    Cardinality({i \in 1..Len(s) :
        i + Len(Marker) - 1 <= Len(s) /\ SubSeq(s, i, i + Len(Marker) - 1) = Marker})

\* what follows the marker in a response that has it once
AfterMarker(s) ==
    LET i == CHOOSE j \in 1..Len(s) :
                j + Len(Marker) - 1 <= Len(s) /\ SubSeq(s, j, j + Len(Marker) - 1) = Marker
    IN SubSeq(s, i + Len(Marker), Len(s))

RECURSIVE WithoutWhitespace(_)
WithoutWhitespace(s) ==
    IF s = <<>> THEN <<>>
    ELSE (IF Head(s) \in Whitespace THEN <<>> ELSE <<Head(s)>>)
            \o WithoutWhitespace(Tail(s))

Commas(s) == Cardinality({i \in 1..Len(s) : s[i] = ","})

\* C12: when the list execute returns a response with the marker once, the
\* reply reports the names that follow it, trimmed and in order, with their
\* number (one more than the commas) and the capacity 40; when only whitespace
\* or nothing follows the marker, the reply is the nobody-online reply, not
\* the trouble reply.
C12_PlayersReported ==
    (QueryAnswered /\ result # None /\ MarkerCount(TheValue(result)) = 1)
    => LET tail == AfterMarker(TheValue(result))
           reply == ev_replies[1]
       IN /\ Len(ev_replies) = 1
          /\ WithoutWhitespace(tail) = <<>> => reply = NobodyOnlineReply
          /\ WithoutWhitespace(tail) # <<>> =>
                /\ reply.text = "players online (%d / %d): %s"
                /\ reply.args[1] = Commas(tail) + 1
                /\ reply.args[2] = 40
                /\ WithoutWhitespace(reply.args[3]) = WithoutWhitespace(tail)
                /\ reply.args[3][1] \notin Whitespace
                /\ reply.args[3][Len(reply.args[3])] \notin Whitespace
          /\ TheValue(result) = <<"2",":"," ","o","n","l","i","n","e",":"," ","A",","," ","B">>
                => reply.args = <<2, 40, <<"A", ",", " ", "B">> >>
          /\ TheValue(result) = <<"o","n","l","i","n","e",":"," ","A"," ">>
                => reply.args = <<1, 40, <<"A">> >>

C12_Witness ==
    /\ QueryAnswered
    /\ pc = "handled"
    /\ result = Some(<<"o","n","l","i","n","e",":"," "," ">>)
    /\ ev_replies = <<NobodyOnlineReply>>

\* C13 as stated: when the list execute returns a response without the marker,
\* or with more than one, the reply differs from the trouble reply given
\* when the execute returned None.
C13_BadFormatToldApart ==
    (QueryAnswered /\ result # None /\ MarkerCount(TheValue(result)) # 1)
    => /\ Len(ev_replies) = 1
       /\ ev_replies[1] # NoPlayerListReply

\* C13 amended: when the list execute returns a response without the marker,
\* or with more than one, the handler does not fail; it gives exactly the
\* trouble reply of a failed execute, so the two outcomes look the same in
\* the chat.
C13_BadFormatGetsTroubleReply ==
    /\ (QueryAnswered /\ result # None /\ MarkerCount(TheValue(result)) # 1)
       => ev_replies = <<NoPlayerListReply>>
    /\ (/\ pc = "reply" /\ x_pc = "done" /\ command = ListCommand
        /\ result # None /\ MarkerCount(TheValue(result)) # 1)
       => out_msg = Some(NoPlayerListReply) /\ ev_replies = <<>>

C13_Witness ==
    /\ QueryAnswered
    /\ pc = "handled"
    /\ result = Some(<<"o","n","l","i","n","e",":"," ","o","n","l","i","n","e",":"," ","A">>)
    /\ ev_replies = <<NoPlayerListReply>>

\* C14: no error ends the bridge: whenever the loop is Disconnected after an
\* error (in the sleep), it later makes a new attempt to open the stream;
\* an error of the stream, at its opening or while it is read, leads to the
\* sleep; and once main has passed its configuration test it never exits.
C14_BridgeNeverStops ==
    /\ [](pc = "sleep" => <>(pc = "subscribe"))
    /\ [][(pc = "sleep" => pc' = "subscribe")
          /\ (pc = "subscribe" => pc' \in {"next_event", "sleep"})
          /\ (pc \notin {"start", "exited"} => pc' # "exited")]_vars
    /\ [](pc = "exited" => target_group = 0)

C14_Witness ==
    /\ pc = "sleep"
    /\ event.kind = "group_message"
    /\ ev_replies = <<VersionReply>>
    /\ ev_ops = <<"send", "close", "connect">>
    /\ mc_client = "closed"

\* C15: with a target group id of zero (or none configured) main exits at
\* once: no client is made or connected, no stream is opened, no event is
\* read, and no call of the executor is made.
C15_NoTargetGroupExits ==
    target_group = 0
    => /\ pc \in {"start", "exited"}
       /\ mc_client = "absent"
       /\ boot = "start"
       /\ event = NoEvent
       /\ x_pc = "idle"
       /\ ev_calls = <<>> /\ ev_ops = <<>> /\ ev_replies = <<>>

C15_Witness ==
    /\ pc = "exited"
    /\ target_group = 0
    /\ mc_client = "absent"

\* C16: main makes one connect at its start and goes on to the loop however
\* it ends; when it failed, the first call of the executor (max_retries 1)
\* whose close, connect and later sends all work is exactly send (failed:
\* not connected), close, connect, send, and returns the response.
C16_FirstCommandReconnects ==
    /\ (pc # "start" /\ target_group # 0)
       => /\ boot # "start"
          /\ pc # "exited"
          /\ mc_client \in {"closed", "open"}
    /\ boot \in {"ok", "failed"}
       => /\ mc_client = (IF boot = "ok" THEN "open" ELSE "closed")
          /\ x_pc = "idle"
          /\ ev_ops = <<>>
    /\ boot = "first_failed"
       => /\ max_retries = 1
          /\ x_log # <<>> => x_log[1] = Op("send", "ClientNotConnectedError", None)
          /\ (/\ x_pc = "done"
              /\ EveryReconnectWorked
              /\ \A i \in Indices("send") : i > 1 => x_log[i].out = "ok")
             => /\ OpNames = <<"send", "close", "connect", "send">>
                /\ result # None
                /\ result = x_log[4].res
                /\ mc_client = "open"

C16_Witness ==
    /\ boot = "first_failed"
    /\ pc = "forward"
    /\ x_pc = "done"
    /\ OpNames = <<"send", "close", "connect", "send">>
    /\ result = Some(<<>>)
    /\ command.verb = "tellraw"

\* C17: one command at most is under way on the console connection, and it
\* is a command of the event in hand, whose handler waits for it; an event is
\* read only when the handling of the one before is over (its executes have
\* returned and its reply is given); and every console operation and every
\* reply is made for the event in hand, before the next is read.
C17_OneAtATimeInOrder ==
    /\ [](/\ x_pc \in {"send", "close", "connect"}
             => /\ pc \in {"forward", "query"}
                /\ ev_calls # <<>>
                /\ command = ev_calls[Len(ev_calls)]
                /\ (pc = "forward") = (Len(ev_calls) = 1 /\ command.verb = "tellraw")
          /\ Len(ev_calls) <= 2
          /\ pc = "next_event" => x_pc = "idle" /\ out_msg = None /\ event = NoEvent)
    /\ [][/\ (event' # event /\ event' # NoEvent)
             => /\ pc = "next_event"
                /\ x_pc = "idle"
                /\ out_msg = None
                /\ ev_calls = <<>> /\ ev_ops = <<>> /\ ev_replies = <<>>
          /\ (ev_ops' # ev_ops /\ ev_ops' # <<>>)
             => /\ event' = event
                /\ pc \in {"forward", "query"} /\ pc' = pc
                /\ x_pc \in {"send", "close", "connect"}
                /\ Len(ev_ops') = Len(ev_ops) + 1
          /\ (ev_replies' # ev_replies /\ ev_replies' # <<>>)
             => /\ event' = event
                /\ pc = "reply"
                /\ x_pc \in {"idle", "done"}
          /\ (x_log' # x_log /\ x_log' = <<>> /\ event' # NoEvent)
             => x_pc \in {"idle", "done"}]_vars

C17_Witness ==
    /\ pc = "query"
    /\ x_pc = "connect"
    /\ TargetGroupMessage
    /\ ev_calls = <<TellrawCommand(<<"C">>, TextMc), ListCommand>>
    /\ ev_ops = <<"send", "send", "close">>

\* the rendering of a segment by its kind: a text is its value, a mention is
\* "@", the name (the id when there is no name) and a space, the four
\* markers are fixed, anything else is nothing
FixedRendering(seg) ==
    IF seg.type = "Text" THEN seg.text
    ELSE IF seg.type = "At"
         THEN IF seg.name = None
              THEN <<"@">> \o seg.qq \o <<" ">>
              ELSE <<"@">> \o TheValue(seg.name) \o <<" ">>
    ELSE IF seg.type \in {"Image", "Face", "Reply", "Forward"}
         THEN << [Image |-> "[image]", Face |-> "[face]", Reply |-> "[reply]",
                  Forward |-> "[forward]"][seg.type] >>
    ELSE <<>>

\* the renderings of the segments one after another, from the first to the last
RECURSIVE InOrder(_)
InOrder(chain) ==
    IF chain = <<>> THEN <<>>
    ELSE InOrder(SubSeq(chain, 1, Len(chain) - 1)) \o FixedRendering(chain[Len(chain)])

\* C18: parse__chain gives a string for every chain (the empty string for
\* the empty one); the string is the renderings of the segments in their
\* order; and a chain that ends with a segment of no known type gives what
\* the chain without that segment gives.
C18_NormalizeConcatenates ==
    /\ pc = "normalize" => ENABLED Normalize
    /\ pc = "normalized"
       => /\ raw_content = InOrder(event.message)
          /\ event.message = <<>> => raw_content = <<>>
          /\ \A chain \in Chains :
                event.message = Append(chain, UnknownMessageSegment)
                => raw_content = parse__chain(chain)

C18_Witness ==
    /\ pc = "normalized"
    /\ event.message = <<Text(<<"a">>), At(<<"1">>, Some(<<"B","o","b">>)),
                         UnknownMessageSegment>>
    /\ raw_content = <<"a", "@", "B", "o", "b", " ">>

\* the order of the operations of a call: send, close, connect, send, ...
ShapeOp(i) == <<"send", "close", "connect">>[((i - 1) % 3) + 1]

\* C19: a close or a connect that fails is the last operation of the call,
\* which returns None there and then, whatever is left of max_retries; the
\* operations of a call come in the order send (close connect send)*, a call
\* whose reconnects all worked ending with a send; and a close is made only
\* right after a send that failed with a connection error on an attempt that
\* is not the last, a connect only right after a close that succeeded.
C19_FailedReconnectEndsCall ==
    /\ \A i \in 1..Len(x_log) : x_log[i].op = ShapeOp(i)
    /\ \A i \in Indices("close") \cup Indices("connect") :
          x_log[i].out # "ok"
          => /\ i = Len(x_log)
             /\ x_pc = "done"
             /\ result = None
    /\ \A i \in Indices("close") :
          /\ i > 1
          /\ x_log[i - 1].op = "send"
          /\ x_log[i - 1].out \in ConnectionErrors
          /\ (i - 2) \div 3 < max_retries
    /\ \A i \in Indices("connect") :
          /\ i > 1
          /\ x_log[i - 1].op = "close"
          /\ x_log[i - 1].out = "ok"
    /\ (x_pc = "done" /\ EveryReconnectWorked) => x_log[Len(x_log)].op = "send"
    /\ x_pc \in {"close", "connect"} => attempt < max_retries

C19_Witness ==
    /\ x_pc = "done"
    /\ max_retries = 2
    /\ OpNames = <<"send", "close", "connect">>
    /\ x_log[3].out = "OSError"
    /\ result = None

\* C20: an error raised in the handling of an event (int(gid) of a group id
\* that is no numeral, send_msg failing) ends in the same place as an error
\* of the stream: in the sleep, with no console operation made by the way
\* and the console connection as it was; after the sleep the stream in hand
\* is given up with the event, and a new one is opened (or fails to open,
\* which leads to the sleep again); the process does not end.
C20_HandlingErrorLikeStreamError ==
    /\ [](/\ pc = "sleep" => x_pc \in {"idle", "done"} /\ target_group # 0
          /\ target_group # 0 => pc # "exited")
    /\ [][/\ (pc' = "sleep" /\ pc # "sleep")
             => /\ pc \in {"subscribe", "next_event", "reply"}
                /\ mc_client' = mc_client
                /\ x_log' = x_log /\ x_pc' = x_pc
                /\ ev_ops' = ev_ops \/ (pc = "next_event" /\ ev_ops' = <<>>)
                /\ pc = "next_event"
                   => \/ event' = event
                      \/ event'.kind = "group_message" /\ ~IsNumeral(event'.group_id)
                /\ pc = "reply" => ev_replies' = Append(ev_replies, TheValue(out_msg))
          /\ pc = "sleep"
             => /\ pc' = "subscribe"
                /\ mc_client' = mc_client
                /\ event' = NoEvent
                /\ x_pc' = "idle" /\ x_log' = <<>>
                /\ ev_ops' = <<>>
          /\ pc = "subscribe"
             => pc' \in {"next_event", "sleep"} /\ mc_client' = mc_client
          ]_vars

C20_Witness ==
    /\ pc = "sleep"
    /\ TargetGroupMessage
    /\ clean_content = TextPing
    /\ ev_replies = <<PongReply>>
    /\ ev_ops = <<"send">>
    /\ mc_client = "open"

====
